---- MODULE Spec2Model ----
(***************************************************************************)
(* A model of kvfast: the header codec (src/src/header.rs), the storage    *)
(* engine Database::{write_database, open, get} (src/src/database.rs) and  *)
(* the RESP wire codec (src/src/protocol.rs).                              *)
(*                                                                         *)
(* Files are sequences of bytes (0..255).  Integers are little-endian      *)
(* encoded byte by byte, as to_le_bytes / from_le_bytes do.  Every slice   *)
(* expression of the source that can go out of range is modelled with its  *)
(* panic outcome.                                                          *)
(***************************************************************************)
EXTENDS Integers, Sequences, FiniteSets, TLC

VARIABLES
    \* ---- header codec harness ----
    hdr_kind,       \* "daba" | "index" | "raw_daba" | "raw_index"
    hdr_in,         \* the header value handed to to_bytes
    hdr_buf,        \* the byte buffer (to_bytes output or raw input)
    hdr_out,        \* the result of from_bytes on hdr_buf
    hdr_pc,         \* "init" | "encoded" | "decoded"
    \* ---- RESP codec harness ----
    resp_val,       \* the RespValue handed to write_resp
    resp_trail,     \* bytes that follow the encoded value in the reader
    resp_buf,       \* the writer's output
    resp_out,       \* the result of parse_resp on resp_buf \o resp_trail
    resp_pc,        \* "init" | "written" | "parsed"
    \* ---- the file pair on disk ----
    data_file,      \* [exists, bytes]
    index_file,     \* [exists, bytes]
    \* ---- one call of write_database ----
    pc,             \* the next step of write_database, or how it ended
    in_keys,        \* the caller's keys_iter
    in_values,      \* the caller's values_iter
    version,        \* the caller's version
    data_pos,       \* cursor of the data file handle
    keys_vec,       \* collected keys
    values_vec,     \* collected values
    mphf,           \* the perfect hash built over keys_vec
    mphf_to_original, \* slot id + 1 -> 0-based original index
    loop_idx,       \* mphf_idx of the running loop
    cursor,         \* running offset of the offsets loop
    \* ---- a reader ----
    db,             \* the result of the last Database::open, or Closed
    get_key,        \* the key of the last get, <<>> before any get
    get_result      \* the result of the last get

codecVars == <<hdr_kind, hdr_in, hdr_buf, hdr_out, hdr_pc>>
respVars == <<resp_val, resp_trail, resp_buf, resp_out, resp_pc>>
fileVars == <<data_file, index_file>>
writeVars == <<pc, in_keys, in_values, version, data_pos, keys_vec, values_vec,
               mphf, mphf_to_original, loop_idx, cursor>>
readVars == <<db, get_key, get_result>>
dbVars == <<fileVars, writeVars, readVars>>
vars == <<codecVars, respVars, dbVars>>

----------------------------------------------------------------------------
(* Program constants *)

KEY_SIZE == 16
DABA_HEADER_SIZE == 32
INDEX_HEADER_SIZE == 40
INDEX_MIN_LEN_CHECK == 36

DABA_MAGIC == <<68, 65, 66, 65>>
KIDX_MAGIC == <<75, 73, 68, 88>>

----------------------------------------------------------------------------
(* Byte helpers *)

\* bytes[lo..hi] of Rust: 0-based, half-open.  Callers check the range.
Slice(bytes, lo, hi) == SubSeq(bytes, lo + 1, hi)

\* A Rust range expression bytes[lo..hi] panics when this is false.
InRange(bytes, lo, hi) == lo <= hi /\ hi <= Len(bytes)

RECURSIVE to_le_bytes(_, _)
to_le_bytes(v, w) ==
    IF w = 0 THEN <<>> ELSE <<v % 256>> \o to_le_bytes(v \div 256, w - 1)

RECURSIVE from_le_bytes(_)
from_le_bytes(bytes) ==
    IF bytes = <<>> THEN 0 ELSE Head(bytes) + 256 * from_le_bytes(Tail(bytes))

Zeros(n) == [i \in 1..n |-> 0]

None == [tag |-> "None"]
Some(v) == [tag |-> "Some", val |-> v]
Panic == [tag |-> "Panic"]

----------------------------------------------------------------------------
(* header.rs *)

DabaHeader_from_bytes(bytes) ==
    IF Len(bytes) < DABA_HEADER_SIZE THEN None
    ELSE LET magic == Slice(bytes, 0, 4)
             ver == from_le_bytes(Slice(bytes, 4, 8))
             num_keys == from_le_bytes(Slice(bytes, 8, 16))
             key_size == from_le_bytes(Slice(bytes, 16, 24))
             values_start == from_le_bytes(Slice(bytes, 24, 32))
         IN IF magic # DABA_MAGIC THEN None
            ELSE Some([magic |-> magic, version |-> ver,
                       num_keys |-> num_keys, key_size |-> key_size,
                       values_start |-> values_start])

DabaHeader_to_bytes(h) ==
    h.magic \o to_le_bytes(h.version, 4) \o to_le_bytes(h.num_keys, 8)
            \o to_le_bytes(h.key_size, 8) \o to_le_bytes(h.values_start, 8)

\* The length guard compares against 36, so a buffer of 36..39 bytes passes
\* it and the read of bytes[32..40] is out of range.
IndexHeader_from_bytes(bytes) ==
    IF Len(bytes) < INDEX_MIN_LEN_CHECK THEN None
    ELSE IF ~InRange(bytes, 32, 40) THEN Panic
    ELSE LET magic == Slice(bytes, 0, 4)
             ver == from_le_bytes(Slice(bytes, 4, 8))
             num_keys == from_le_bytes(Slice(bytes, 8, 16))
             mphf_size == from_le_bytes(Slice(bytes, 16, 24))
             keys_offset == from_le_bytes(Slice(bytes, 24, 32))
             offsets_offset == from_le_bytes(Slice(bytes, 32, 40))
         IN IF magic # KIDX_MAGIC THEN None
            ELSE Some([magic |-> magic, version |-> ver,
                       num_keys |-> num_keys, mphf_size |-> mphf_size,
                       keys_offset |-> keys_offset,
                       offsets_offset |-> offsets_offset])

\* the two section offsets written in each other's place
IndexHeader_to_bytes_swapped(h) ==
    h.magic \o to_le_bytes(h.version, 4) \o to_le_bytes(h.num_keys, 8)
            \o to_le_bytes(h.mphf_size, 8) \o to_le_bytes(h.offsets_offset, 8)
            \o to_le_bytes(h.keys_offset, 8)

IndexHeader_to_bytes(h) ==
    h.magic \o to_le_bytes(h.version, 4) \o to_le_bytes(h.num_keys, 8)
            \o to_le_bytes(h.mphf_size, 8) \o to_le_bytes(h.keys_offset, 8)
            \o to_le_bytes(h.offsets_offset, 8)

----------------------------------------------------------------------------
(* protocol.rs *)

LF == 10
CRLF == <<13, LF>>

SimpleString(b) == [kind |-> "SimpleString", data |-> b, items |-> <<>>, n |-> 0]
Error(b) == [kind |-> "Error", data |-> b, items |-> <<>>, n |-> 0]
Integer(i) == [kind |-> "Integer", data |-> <<>>, items |-> <<>>, n |-> i]
BulkString(b) == [kind |-> "BulkString", data |-> b, items |-> <<>>, n |-> 0]
Array(vs) == [kind |-> "Array", data |-> <<>>, items |-> vs, n |-> 0]

\* "{}" of an unsigned value: its decimal digits in ASCII
RECURSIVE FmtUnsigned(_)
FmtUnsigned(n) ==
    IF n < 10 THEN <<48 + n>> ELSE FmtUnsigned(n \div 10) \o <<48 + (n % 10)>>

\* "{}" of an i64
FmtI64(i) == IF i < 0 THEN <<45>> \o FmtUnsigned(0 - i) ELSE FmtUnsigned(i)

RECURSIVE write_resp(_)
WriteItems(vs) ==
    LET RECURSIVE Go(_)
        Go(k) == IF k > Len(vs) THEN <<>> ELSE write_resp(vs[k]) \o Go(k + 1)
    IN Go(1)

write_resp(value) ==
    CASE value.kind = "SimpleString" -> <<43>> \o value.data \o CRLF
      [] value.kind = "Error" -> <<45>> \o value.data \o CRLF
      [] value.kind = "Integer" -> <<58>> \o FmtI64(value.n) \o CRLF
      [] value.kind = "BulkString" ->
            <<36>> \o FmtUnsigned(Len(value.data)) \o CRLF
                   \o value.data \o CRLF
      [] value.kind = "Array" ->
            <<42>> \o FmtUnsigned(Len(value.items)) \o CRLF
                   \o WriteItems(value.items)

\* A reader is the pair (bytes, pos): pos bytes have been consumed.

\* BufRead::read_line: the bytes up to and including the first LF, or up to
\* the end of input.  Yields the new position.
ReadLineEnd(bytes, pos) ==
    LET lfs == { j \in (pos + 1)..Len(bytes) : bytes[j] = LF }
    IN IF lfs = {} THEN Len(bytes)
       ELSE CHOOSE j \in lfs : \A k \in lfs : j <= k

\* read_line appends to a String, so the line must be UTF-8; bytes are
\* modelled as ASCII or as a lone byte >= 128, which is not UTF-8.
IsUtf8(line) == \A j \in 1..Len(line) : line[j] < 128

IsWhitespace(b) == b \in {9, 10, 11, 12, 13, 32}

\* the line terminator left on the length line
trim_end_none(s) == s

\* str::trim_end
RECURSIVE trim_end(_)
trim_end(s) ==
    IF s # <<>> /\ IsWhitespace(s[Len(s)])
    THEN trim_end(SubSeq(s, 1, Len(s) - 1)) ELSE s

IsDigit(b) == b \in 48..57

RECURSIVE DigitsValue(_)
DigitsValue(s) ==
    IF s = <<>> THEN 0
    ELSE 10 * DigitsValue(SubSeq(s, 1, Len(s) - 1)) + (s[Len(s)] - 48)

\* str::parse::<i64>: an optional sign and at least one digit
ParseI64(s) ==
    LET signed == s # <<>> /\ s[1] \in {43, 45}
        digits == IF signed THEN Tail(s) ELSE s
    IN IF digits = <<>> \/ \E j \in 1..Len(digits) : ~IsDigit(digits[j])
       THEN None
       ELSE Some(IF signed /\ s[1] = 45 THEN 0 - DigitsValue(digits)
                 ELSE DigitsValue(digits))

UnwrapOr(opt, d) == IF opt.tag = "Some" THEN opt.val ELSE d

ParseOk(v, p) == [tag |-> "Ok", val |-> v, pos |-> p]
ParseErr == [tag |-> "Err"]

RECURSIVE parse_resp(_, _)
RECURSIVE ParseItemsLoop(_, _, _, _)
ParseItemsLoop(bytes, pos, count, items) ==
    IF count <= 0 THEN ParseOk(Array(items), pos)
    ELSE LET r == parse_resp(bytes, pos)
         IN IF r.tag # "Ok" THEN r
            ELSE ParseItemsLoop(bytes, r.pos, count - 1, Append(items, r.val))

parse_resp(bytes, pos) ==
    IF pos + 1 > Len(bytes) THEN ParseErr
    ELSE
      LET first == bytes[pos + 1]
          eol == ReadLineEnd(bytes, pos + 1)
          line == SubSeq(bytes, pos + 2, eol)
      IN CASE first = 43 ->
                IF ~IsUtf8(line) THEN ParseErr
                ELSE ParseOk(SimpleString(trim_end(line)), eol)
           [] first = 45 ->
                IF ~IsUtf8(line) THEN ParseErr
                ELSE ParseOk(Error(trim_end(line)), eol)
           [] first = 58 ->
                IF ~IsUtf8(line) THEN ParseErr
                ELSE ParseOk(Integer(UnwrapOr(ParseI64(trim_end(line)), 0)), eol)
           [] first = 36 ->
                IF ~IsUtf8(line) THEN ParseErr
                ELSE LET len == UnwrapOr(ParseI64(trim_end(line)), 0 - 1)
                     IN IF len < 0 THEN ParseOk(BulkString(<<>>), eol)
                        ELSE IF eol + len > Len(bytes) THEN ParseErr
                        ELSE IF eol + len + 2 > Len(bytes) THEN ParseErr
                        ELSE ParseOk(BulkString(SubSeq(bytes, eol + 1, eol + len)),
                                     eol + len + 2)
           [] first = 42 ->
                IF ~IsUtf8(line) THEN ParseErr
                ELSE LET count == UnwrapOr(ParseI64(trim_end(line)), 0)
                     IN IF count < 0 THEN Panic
                        ELSE ParseItemsLoop(bytes, eol, count, <<>>)
           [] OTHER -> ParseErr

----------------------------------------------------------------------------
(* database.rs *)

\* The 16-byte keys the model uses: they differ in their last byte only.
KeyTags == {1, 2, 3}
NumUniverseKeys == Cardinality(KeyTags)
Key(c) == [i \in 1..KEY_SIZE |-> IF i = KEY_SIZE THEN c ELSE 107]
KeyUniverse == { Key(c) : c \in KeyTags }

Min(a, b) == IF a <= b THEN a ELSE b

\* A file on disk
NoFile == [exists |-> FALSE, bytes |-> <<>>]
FileOf(bytes) == [exists |-> TRUE, bytes |-> bytes]

\* write_all of `new` at cursor `pos` of a file holding `bytes`
WriteAt(bytes, pos, new) ==
    SubSeq(bytes, 1, pos) \o new \o SubSeq(bytes, pos + Len(new) + 1, Len(bytes))

(* ---- the perfect hash library, by its contract ---- *)

\* PtrHash::new over unique keys: any function that is a bijection from the
\* keys onto [0, n); the id of a key outside the set is any id, one that
\* aliases a stored key or one outside [0, n).
PtrHashNew(keys) ==
    LET n == Len(keys)
        members == { keys[j] : j \in 1..n }
    IN { m \in [KeyUniverse -> 0..n] :
            /\ \A k \in members : m[k] < n
            /\ \A j1, j2 \in 1..n : j1 # j2 => m[keys[j1]] # m[keys[j2]] }

\* mphf.serialize: one byte per universe key, its id
MphfSerialize(m) == [c \in 1..NumUniverseKeys |-> m[Key(c)]]

\* Deserialize::mmap: an error on bytes that are not a serialized structure
MphfDeserialize(bytes) ==
    IF Len(bytes) # NumUniverseKeys THEN None
    ELSE Some([k \in KeyUniverse |-> bytes[CHOOSE c \in 1..NumUniverseKeys : Key(c) = k]])

(* ---- Database::write_database ---- *)

\* keys_iter.zip(values_iter): pairs up to the shorter of the two; the
\* assert_eq on the key length panics at the first zipped key that is not
\* KEY_SIZE bytes long.
CollectPairs(keys, values) ==
    LET n == Min(Len(keys), Len(values))
    IN IF \E j \in 1..n : Len(keys[j]) # KEY_SIZE THEN Panic
       ELSE Some([keys_vec |-> SubSeq(keys, 1, n),
                  values_vec |-> SubSeq(values, 1, n)])

\* the table filled the other way round: slot original_idx holds the id
MphfToOriginal_inverted(keys, m) == [slot \in 1..Len(keys) |-> m[keys[slot]]]

\* mphf_to_original[mphf.index(key)] = original_idx, in caller order over a
\* vector initialised to 0.  Slot id is at position id + 1; original
\* indices are 0-based.
MphfToOriginal(keys, m) ==
    [slot \in 1..Len(keys) |->
        LET hits == { j \in 1..Len(keys) : m[keys[j]] = slot - 1 }
        IN IF hits = {} THEN 0
           ELSE (CHOOSE j \in hits : \A h \in hits : h <= j) - 1]

\* the cursor is written but never advanced
AdvanceCursor_stuck(cur, len) == cur

\* cursor += values_vec[original_idx].len()
AdvanceCursor(cur, len) == cur + len

BuildIndexHeader(num_keys, mphf_size) ==
    LET keys_offset == INDEX_HEADER_SIZE + mphf_size
        offsets_offset == keys_offset + num_keys * KEY_SIZE
    IN [magic |-> KIDX_MAGIC, version |-> 1, num_keys |-> num_keys,
        mphf_size |-> mphf_size, keys_offset |-> keys_offset,
        offsets_offset |-> offsets_offset]

BuildDabaHeader(ver, num_keys) ==
    [magic |-> DABA_MAGIC, version |-> ver, num_keys |-> num_keys,
     key_size |-> KEY_SIZE, values_start |-> DABA_HEADER_SIZE]

\* a placeholder that already is a header (of an empty database)
PlaceholderHeader_early == DabaHeader_to_bytes(BuildDabaHeader(1, 0))

\* The zero-filled placeholder written in place of the data header
PlaceholderHeader == Zeros(DABA_HEADER_SIZE)

(* ---- Database::open ---- *)

OpenErr(e) == [tag |-> "Err", err |-> e, db |-> <<>>]
OpenPanic == [tag |-> "Panic", err |-> "", db |-> <<>>]
OpenOk(d) == [tag |-> "Ok", err |-> "", db |-> d]
Closed == [tag |-> "Closed", err |-> "", db |-> <<>>]

\* for i in 0..num_keys: index_mmap[start + i*width .. start + (i+1)*width]
RecordsInRange(bytes, start, n, width) ==
    \A i \in 0..(n - 1) : InRange(bytes, start + i * width, start + (i + 1) * width)

ReadKeys(bytes, start, n) ==
    [i \in 1..n |-> Slice(bytes, start + (i - 1) * KEY_SIZE, start + i * KEY_SIZE)]

ReadOffsets(bytes, start, n) ==
    [i \in 1..n |-> from_le_bytes(Slice(bytes, start + (i - 1) * 8, start + i * 8))]

\* the cross-check left out
CountMismatch_never(index_header, header) == FALSE

\* The key-count cross-check between the two headers
CountMismatch(index_header, header) == index_header.num_keys # header.num_keys

\* Everything after the count check: the hash structure, the keys and the
\* offsets are sliced out of the index file.
OpenSections(data, index, header, index_header) ==
    LET num_keys == header.num_keys
        mphf_start == INDEX_HEADER_SIZE
        mphf_end == mphf_start + index_header.mphf_size
    IN IF ~InRange(index, mphf_start, mphf_end) THEN OpenPanic
       ELSE LET de == MphfDeserialize(Slice(index, mphf_start, mphf_end))
            IN IF de.tag = "None" THEN OpenErr("Failed to deserialize MPHF")
               ELSE IF ~RecordsInRange(index, index_header.keys_offset,
                                       num_keys, KEY_SIZE) THEN OpenPanic
               ELSE IF ~RecordsInRange(index, index_header.offsets_offset,
                                       num_keys, 8) THEN OpenPanic
               ELSE OpenOk([header |-> header,
                            mmap_data |-> data,
                            offsets |-> ReadOffsets(index, index_header.offsets_offset, num_keys),
                            keys |-> ReadKeys(index, index_header.keys_offset, num_keys),
                            mphf |-> de.val])

\* The index half of open, once the data header is decoded
OpenIndex(data, ifile, header) ==
    IF ~ifile.exists THEN { OpenErr("io") }
    ELSE IF ~InRange(ifile.bytes, 0, INDEX_HEADER_SIZE)
         THEN IF Len(ifile.bytes) = 0 THEN { OpenErr("io"), OpenPanic }
              ELSE { OpenPanic }
    ELSE LET index_header ==
                 IndexHeader_from_bytes(Slice(ifile.bytes, 0, INDEX_HEADER_SIZE))
         IN IF index_header.tag # "Some" THEN { OpenErr("Invalid index header") }
            ELSE IF CountMismatch(index_header.val, header)
                 THEN { OpenErr("Key count mismatch between data and index files") }
            ELSE { OpenSections(data, ifile.bytes, header, index_header.val) }

\* The outcomes of Database::open on a file pair.  Mapping an empty file
\* either fails or yields an empty map whose header slice is out of range,
\* depending on the mmap library.
OpenOutcomes(dfile, ifile) ==
    IF ~dfile.exists THEN { OpenErr("io") }
    ELSE IF ~InRange(dfile.bytes, 0, DABA_HEADER_SIZE)
         THEN IF Len(dfile.bytes) = 0 THEN { OpenErr("io"), OpenPanic }
              ELSE { OpenPanic }
    ELSE LET header == DabaHeader_from_bytes(Slice(dfile.bytes, 0, DABA_HEADER_SIZE))
         IN IF header.tag # "Some" THEN { OpenErr("Invalid DABA header") }
            ELSE OpenIndex(dfile.bytes, ifile, header.val)

(* ---- Database::get ---- *)

\* the next offset is never looked at
GetEnd_noNext(d, idx) ==
    IF Len(d.mmap_data) < d.header.values_start THEN 0 - 1
    ELSE Len(d.mmap_data) - d.header.values_start

\* the fallback end also subtracts the id's own offset
GetEnd_minusStart(d, idx) ==
    IF idx + 1 < Len(d.offsets) THEN d.offsets[idx + 2]
    ELSE IF Len(d.mmap_data) < d.header.values_start + d.offsets[idx + 1] THEN 0 - 1
    ELSE Len(d.mmap_data) - d.header.values_start - d.offsets[idx + 1]

\* offsets.get(idx + 1).unwrap_or(mmap_data.len() - values_start), for the
\* 0-based id idx.  The subtraction is on usize: it cannot go below zero
\* (-1 stands for the overflow).
GetEnd(d, idx) ==
    IF idx + 1 < Len(d.offsets) THEN d.offsets[idx + 2]
    ELSE IF Len(d.mmap_data) < d.header.values_start THEN 0 - 1
    ELSE Len(d.mmap_data) - d.header.values_start

\* only the bounds check, the stored key is not compared
KeyMatches_boundsOnly(d, idx, key) == idx < Len(d.keys)

\* The stored key at the id must equal the queried key
KeyMatches(d, idx, key) == idx < Len(d.keys) /\ d.keys[idx + 1] = key

get(d, key) ==
    LET idx == d.mphf[key]
    IN IF ~KeyMatches(d, idx, key) THEN None
       ELSE LET start == d.offsets[idx + 1]
                end == GetEnd(d, idx)
                lo == d.header.values_start + start
                hi == d.header.values_start + end
            IN IF end < 0 \/ ~InRange(d.mmap_data, lo, hi) THEN Panic
               ELSE Some(Slice(d.mmap_data, lo, hi))

----------------------------------------------------------------------------
(* Each specification below exercises one part of the program; the state of
   the other parts is parked in these idle values. *)

NoHeader == [magic |-> <<>>]

CodecIdle ==
    /\ hdr_pc = "off" /\ hdr_kind = "off" /\ hdr_in = NoHeader
    /\ hdr_buf = <<>> /\ hdr_out = [tag |-> "Unset"]

RespIdle ==
    /\ resp_pc = "off" /\ resp_val = Integer(0) /\ resp_trail = <<>>
    /\ resp_buf = <<>> /\ resp_out = [tag |-> "Unset"]

NoMphf == [k \in KeyUniverse |-> 0]

WriterIdle ==
    /\ in_keys = <<>> /\ in_values = <<>> /\ version = 0
    /\ data_pos = 0 /\ keys_vec = <<>> /\ values_vec = <<>>
    /\ mphf = NoMphf /\ mphf_to_original = <<>>
    /\ loop_idx = 0 /\ cursor = 0

ReaderIdle == db = Closed /\ get_key = <<>> /\ get_result = [tag |-> "Unset"]

DbIdle ==
    /\ pc = "off" /\ data_file = NoFile /\ index_file = NoFile
    /\ WriterIdle /\ ReaderIdle

----------------------------------------------------------------------------
(* RESP harness: write_resp then parse_resp on bounded values *)

MaxBulkLen == 2
MaxArrayLen == 2
MaxDepth == 2

RespBytes == {13, 10, 36, 49, 200}

SeqsUpTo(S, n) == UNION { [1..k -> S] : k \in 0..n }

LongData == { [i \in 1..10 |-> 13], [i \in 1..12 |-> 65] }

BulkValues == { BulkString(b) : b \in SeqsUpTo(RespBytes, MaxBulkLen) \cup LongData }

\* arrays of short and long bulk strings
FlatArrays ==
    { Array(vs) : vs \in SeqsUpTo({ BulkString(b) : b \in SeqsUpTo(RespBytes, 1) \cup LongData },
                                  MaxArrayLen) }

SmallBulks == { BulkString(<<>>), BulkString(<<13, 10>>), BulkString(<<49>>) }

\* values nested d deep: a bulk string, the empty array, or an array of one
\* value nested d - 1 deep
RECURSIVE Deep(_)
Deep(d) ==
    IF d = 0 THEN SmallBulks
    ELSE Deep(d - 1) \cup { Array(<<>>) } \cup { Array(<<x>>) : x \in Deep(d - 1) }

\* arrays of values nested up to MaxDepth - 1 deep
NestedArrays == { Array(vs) : vs \in SeqsUpTo(Deep(MaxDepth - 1), MaxArrayLen) }

OtherValues ==
    { SimpleString(<<79, 75>>), Error(<<69, 82, 82>>), Integer(42), Integer(0 - 7) }

RespValues == BulkValues \cup FlatArrays \cup NestedArrays \cup OtherValues

Trails == { <<>>, <<36, 49, 13, 10>> }

RespInit ==
    /\ CodecIdle /\ DbIdle
    /\ resp_pc = "init"
    /\ resp_val \in RespValues
    /\ resp_trail \in Trails
    /\ resp_buf = <<>>
    /\ resp_out = [tag |-> "Unset"]

WriteResp ==
    /\ resp_pc = "init"
    /\ resp_buf' = write_resp(resp_val)
    /\ resp_pc' = "written"
    /\ UNCHANGED <<resp_val, resp_trail, resp_out, codecVars, dbVars>>

ParseResp ==
    /\ resp_pc = "written"
    /\ resp_out' = parse_resp(resp_buf \o resp_trail, 0)
    /\ resp_pc' = "parsed"
    /\ UNCHANGED <<resp_val, resp_trail, resp_buf, codecVars, dbVars>>

RespNext == WriteResp \/ ParseResp

SpecResp == RespInit /\ [][RespNext]_vars

RECURSIVE OnlyBulkAndArray(_)
OnlyBulkAndArray(v) ==
    \/ v.kind = "BulkString"
    \/ /\ v.kind = "Array"
       /\ \A k \in 1..Len(v.items) : OnlyBulkAndArray(v.items[k])

\* C9: Wire round trip.  A bulk string b is written as $<len(b)>\r\n<b>\r\n,
\* and for every value made of bulk strings and nested arrays of them,
\* parsing the written bytes yields an equal value and consumes exactly the
\* written bytes.
RespRoundTrip ==
    /\ (resp_pc # "init" /\ resp_pc # "off" /\ resp_val.kind = "BulkString") =>
          resp_buf = <<36>> \o FmtUnsigned(Len(resp_val.data)) \o CRLF
                           \o resp_val.data \o CRLF
    /\ (resp_pc = "parsed" /\ OnlyBulkAndArray(resp_val)) =>
          /\ resp_out.tag = "Ok"
          /\ resp_out.val = resp_val
          /\ resp_out.pos = Len(resp_buf)

C9Witness ==
    /\ resp_pc = "parsed"
    /\ resp_val.kind = "Array"
    /\ Len(resp_val.items) = 2
    /\ resp_val.items[2].kind = "Array"
    /\ resp_val.items[2].items = <<BulkString(<<13, 10>>)>>
    /\ resp_trail # <<>>
    /\ resp_out.tag = "Ok"
    /\ resp_out.val = resp_val

----------------------------------------------------------------------------
(* Header codec harness: to_bytes / from_bytes applied to bounded inputs *)

MaxRawLen == 41

U32Vals == {0, 1, 258, 2147483647}
U64Vals == {0, 16, 255, 65537, 2147483647}

DabaHeaders ==
    [magic : {DABA_MAGIC}, version : U32Vals, num_keys : U64Vals,
     key_size : {16, 255}, values_start : U64Vals]

IndexHeaders ==
    [magic : {KIDX_MAGIC}, version : {1, 258}, num_keys : U64Vals,
     mphf_size : {0, 65537}, keys_offset : U64Vals, offsets_offset : U64Vals]

\* A raw buffer of n bytes: 4 magic bytes, then `fill` in the low byte of
\* every integer field and 0 elsewhere, cut to n bytes.
RawBuffer(magic, fill, n) ==
    [i \in 1..n |-> IF i <= 4 THEN magic[i]
                    ELSE IF (i - 1) % 4 = 0 /\ ((i - 1) % 8 = 0 \/ i = 5)
                         THEN fill ELSE 0]

BadMagics == {<<68, 65, 66, 66>>, <<75, 73, 68, 89>>, <<0, 0, 0, 0>>}

RawBuffers ==
    { RawBuffer(m, f, n) : m \in {DABA_MAGIC, KIDX_MAGIC} \cup BadMagics,
                           f \in {0, 7}, n \in 0..MaxRawLen }

CodecInit ==
    /\ RespIdle /\ DbIdle
    /\ hdr_pc = "init"
    /\ hdr_out = [tag |-> "Unset"]
    /\ \/ /\ hdr_kind = "daba"
          /\ hdr_in \in DabaHeaders
          /\ hdr_buf = <<>>
       \/ /\ hdr_kind = "index"
          /\ hdr_in \in IndexHeaders
          /\ hdr_buf = <<>>
       \/ /\ hdr_kind \in {"raw_daba", "raw_index"}
          /\ hdr_in = NoHeader
          /\ hdr_buf \in RawBuffers

EncodeDaba ==
    /\ hdr_pc = "init" /\ hdr_kind = "daba"
    /\ hdr_buf' = DabaHeader_to_bytes(hdr_in)
    /\ hdr_pc' = "encoded"
    /\ UNCHANGED <<hdr_kind, hdr_in, hdr_out, respVars, dbVars>>

EncodeIndex ==
    /\ hdr_pc = "init" /\ hdr_kind = "index"
    /\ hdr_buf' = IndexHeader_to_bytes(hdr_in)
    /\ hdr_pc' = "encoded"
    /\ UNCHANGED <<hdr_kind, hdr_in, hdr_out, respVars, dbVars>>

DecodeDaba ==
    /\ \/ hdr_pc = "encoded" /\ hdr_kind = "daba"
       \/ hdr_pc = "init" /\ hdr_kind = "raw_daba"
    /\ hdr_out' = DabaHeader_from_bytes(hdr_buf)
    /\ hdr_pc' = "decoded"
    /\ UNCHANGED <<hdr_kind, hdr_in, hdr_buf, respVars, dbVars>>

DecodeIndex ==
    /\ \/ hdr_pc = "encoded" /\ hdr_kind = "index"
       \/ hdr_pc = "init" /\ hdr_kind = "raw_index"
    /\ hdr_out' = IndexHeader_from_bytes(hdr_buf)
    /\ hdr_pc' = "decoded"
    /\ UNCHANGED <<hdr_kind, hdr_in, hdr_buf, respVars, dbVars>>

CodecNext == EncodeDaba \/ EncodeIndex \/ DecodeDaba \/ DecodeIndex

SpecCodec == CodecInit /\ [][CodecNext]_vars

\* C8: Header round trip.  Decoding the bytes produced by to_bytes for a
\* header with the right magic succeeds and yields a header equal to the
\* original, field by field.
HeaderRoundTrip ==
    (hdr_pc = "decoded" /\ hdr_kind \in {"daba", "index"}) =>
        /\ hdr_out.tag = "Some"
        /\ hdr_out.val = hdr_in

C8Witness ==
    /\ hdr_pc = "decoded" /\ hdr_kind = "index"
    /\ hdr_out.tag = "Some"
    /\ hdr_out.val.offsets_offset = 2147483647
    /\ hdr_out.val.version = 258

\* C7: Decoding a buffer that is shorter than the fixed header size, or
\* whose first four bytes are not the magic, returns the error value and
\* never reads past the end of the buffer.
DecodeRejectsBadInput ==
    (hdr_pc = "decoded" /\ hdr_kind \in {"raw_daba", "raw_index"}) =>
        LET size == IF hdr_kind = "raw_daba" THEN DABA_HEADER_SIZE
                    ELSE INDEX_HEADER_SIZE
            magic == IF hdr_kind = "raw_daba" THEN DABA_MAGIC ELSE KIDX_MAGIC
        IN (Len(hdr_buf) < size \/ SubSeq(hdr_buf, 1, 4) # magic) =>
               hdr_out = None

----------------------------------------------------------------------------
(* The storage engine: one write_database call, step by step, over a file
   pair that is absent or holds an earlier database; a reader opens the
   pair between any two steps, queries it and closes it again. *)

MaxKeys == 3

BadKey == [i \in 1..(KEY_SIZE - 1) |-> 107]
InputKeys == KeyUniverse \cup {BadKey}

\* the value of length n: bytes n, n+1, ...
ValueOfLen(n) == [i \in 1..n |-> 10 * n + i]
ValueUniverse == { ValueOfLen(0), ValueOfLen(1), ValueOfLen(2) }

Versions == {1, 258}

\* keys are unique (the caller's precondition)
KeySeqs ==
    { ks \in SeqsUpTo(InputKeys, MaxKeys) :
         \A a, b \in 1..Len(ks) : a # b => ks[a] # ks[b] }
ValueSeqs == SeqsUpTo(ValueUniverse, MaxKeys)

RECURSIVE Concat(_)
Concat(seqs) == IF seqs = <<>> THEN <<>> ELSE Head(seqs) \o Concat(Tail(seqs))

\* offsets in id order: the running sum of the lengths of the values
RECURSIVE OffsetsFrom(_, _)
OffsetsFrom(lens, cur) ==
    IF lens = <<>> THEN <<>>
    ELSE <<cur>> \o OffsetsFrom(Tail(lens), AdvanceCursor(cur, Head(lens)))

\* The file pair a completed write_database leaves
BuiltData(ver, ks, vs, m) ==
    LET m2o == MphfToOriginal(ks, m)
    IN DabaHeader_to_bytes(BuildDabaHeader(ver, Len(ks)))
         \o Concat([s \in 1..Len(ks) |-> vs[m2o[s] + 1]])

BuiltIndex(ks, vs, m) ==
    LET m2o == MphfToOriginal(ks, m)
        mb == MphfSerialize(m)
    IN IndexHeader_to_bytes(BuildIndexHeader(Len(ks), Len(mb))) \o mb
         \o Concat([s \in 1..Len(ks) |-> ks[m2o[s] + 1]])
         \o Concat([s \in 1..Len(ks) |->
                to_le_bytes(OffsetsFrom([t \in 1..Len(ks) |-> Len(vs[m2o[t] + 1])], 0)[s], 8)])

\* an earlier database on the same paths
OldKeys == <<Key(3), Key(1)>>
OldValues == <<<<9>>, <<8, 8, 8>>>>
OldMphf == CHOOSE m \in PtrHashNew(OldKeys) : m[Key(3)] = 1
OldPair ==
    <<FileOf(BuiltData(1, OldKeys, OldValues, OldMphf)),
      FileOf(BuiltIndex(OldKeys, OldValues, OldMphf))>>

Init ==
    /\ CodecIdle /\ RespIdle
    /\ pc = "idle"
    /\ \E pair \in { <<NoFile, NoFile>>, OldPair } :
          data_file = pair[1] /\ index_file = pair[2]
    /\ WriterIdle /\ ReaderIdle

WriterMayStep == db = Closed

\* File::create(&path_data): the call starts, the data file is truncated
CreateData ==
    /\ pc = "idle" /\ WriterMayStep
    /\ in_keys' \in KeySeqs
    /\ in_values' \in ValueSeqs
    /\ version' \in Versions
    /\ data_file' = FileOf(<<>>)
    /\ data_pos' = 0
    /\ pc' = "placeholder"
    /\ UNCHANGED <<index_file, keys_vec, values_vec, mphf, mphf_to_original,
                   loop_idx, cursor, readVars, codecVars, respVars>>

\* data_file.write_all(&vec![0u8; header_size])
WritePlaceholder ==
    /\ pc = "placeholder" /\ WriterMayStep
    /\ data_file' = FileOf(WriteAt(data_file.bytes, data_pos, PlaceholderHeader))
    /\ data_pos' = data_pos + Len(PlaceholderHeader)
    /\ pc' = "collect"
    /\ UNCHANGED <<index_file, in_keys, in_values, version, keys_vec, values_vec,
                   mphf, mphf_to_original, loop_idx, cursor, readVars,
                   codecVars, respVars>>

\* The zip loop, PtrHash::new and the mphf_to_original loop: no file is
\* touched.  A key of the wrong length panics.
Collect ==
    /\ pc = "collect" /\ WriterMayStep
    /\ LET c == CollectPairs(in_keys, in_values)
       IN IF c.tag = "Panic"
          THEN /\ pc' = "panicked"
               /\ UNCHANGED <<keys_vec, values_vec, mphf, mphf_to_original>>
          ELSE /\ keys_vec' = c.val.keys_vec
               /\ values_vec' = c.val.values_vec
               /\ mphf' \in PtrHashNew(c.val.keys_vec)
               /\ mphf_to_original' = MphfToOriginal(c.val.keys_vec, mphf')
               /\ pc' = IF Len(c.val.keys_vec) = 0 THEN "create_index"
                        ELSE "write_values"
    /\ loop_idx' = 0
    /\ UNCHANGED <<fileVars, in_keys, in_values, version, data_pos, cursor,
                   readVars, codecVars, respVars>>

\* data_file.write_all(val_bytes), one value per step, in id order
WriteValue ==
    /\ pc = "write_values" /\ WriterMayStep
    /\ LET val_bytes == values_vec[mphf_to_original[loop_idx + 1] + 1]
       IN /\ data_file' = FileOf(WriteAt(data_file.bytes, data_pos, val_bytes))
          /\ data_pos' = data_pos + Len(val_bytes)
    /\ loop_idx' = loop_idx + 1
    /\ pc' = IF loop_idx + 1 = Len(keys_vec) THEN "create_index" ELSE "write_values"
    /\ UNCHANGED <<index_file, in_keys, in_values, version, keys_vec, values_vec,
                   mphf, mphf_to_original, cursor, readVars, codecVars, respVars>>

\* File::create(&path_index)
CreateIndex ==
    /\ pc = "create_index" /\ WriterMayStep
    /\ index_file' = FileOf(<<>>)
    /\ pc' = "index_header"
    /\ UNCHANGED <<data_file, in_keys, in_values, version, data_pos, keys_vec,
                   values_vec, mphf, mphf_to_original, loop_idx, cursor,
                   readVars, codecVars, respVars>>

\* index_file.write_all(&index_header.to_bytes())
WriteIndexHeader ==
    /\ pc = "index_header" /\ WriterMayStep
    /\ index_file' = FileOf(index_file.bytes \o
           IndexHeader_to_bytes(BuildIndexHeader(Len(keys_vec),
                                                 Len(MphfSerialize(mphf)))))
    /\ pc' = "mphf"
    /\ UNCHANGED <<data_file, in_keys, in_values, version, data_pos, keys_vec,
                   values_vec, mphf, mphf_to_original, loop_idx, cursor,
                   readVars, codecVars, respVars>>

\* index_file.write_all(&mphf_bytes)
WriteMphf ==
    /\ pc = "mphf" /\ WriterMayStep
    /\ index_file' = FileOf(index_file.bytes \o MphfSerialize(mphf))
    /\ loop_idx' = 0
    /\ cursor' = 0
    /\ pc' = IF Len(keys_vec) = 0 THEN "seek" ELSE "write_keys"
    /\ UNCHANGED <<data_file, in_keys, in_values, version, data_pos, keys_vec,
                   values_vec, mphf, mphf_to_original, readVars, codecVars,
                   respVars>>

\* index_file.write_all(key), one key per step, in id order
WriteKey ==
    /\ pc = "write_keys" /\ WriterMayStep
    /\ index_file' = FileOf(index_file.bytes \o
                            keys_vec[mphf_to_original[loop_idx + 1] + 1])
    /\ loop_idx' = IF loop_idx + 1 = Len(keys_vec) THEN 0 ELSE loop_idx + 1
    /\ pc' = IF loop_idx + 1 = Len(keys_vec) THEN "write_offsets" ELSE "write_keys"
    /\ UNCHANGED <<data_file, in_keys, in_values, version, data_pos, keys_vec,
                   values_vec, mphf, mphf_to_original, cursor, readVars,
                   codecVars, respVars>>

\* index_file.write_all(&cursor.to_le_bytes()); cursor += len
WriteOffset ==
    /\ pc = "write_offsets" /\ WriterMayStep
    /\ index_file' = FileOf(index_file.bytes \o to_le_bytes(cursor, 8))
    /\ cursor' = AdvanceCursor(cursor,
                     Len(values_vec[mphf_to_original[loop_idx + 1] + 1]))
    /\ loop_idx' = loop_idx + 1
    /\ pc' = IF loop_idx + 1 = Len(keys_vec) THEN "seek" ELSE "write_offsets"
    /\ UNCHANGED <<data_file, in_keys, in_values, version, data_pos, keys_vec,
                   values_vec, mphf, mphf_to_original, readVars, codecVars,
                   respVars>>

\* data_file.seek(SeekFrom::Start(0))
SeekStart ==
    /\ pc = "seek" /\ WriterMayStep
    /\ data_pos' = 0
    /\ pc' = "data_header"
    /\ UNCHANGED <<fileVars, in_keys, in_values, version, keys_vec, values_vec,
                   mphf, mphf_to_original, loop_idx, cursor, readVars,
                   codecVars, respVars>>

\* data_file.write_all(&header.to_bytes()); Ok(())
WriteDataHeader ==
    /\ pc = "data_header" /\ WriterMayStep
    /\ LET hb == DabaHeader_to_bytes(BuildDabaHeader(version, Len(keys_vec)))
       IN /\ data_file' = FileOf(WriteAt(data_file.bytes, data_pos, hb))
          /\ data_pos' = data_pos + Len(hb)
    /\ pc' = "done"
    /\ UNCHANGED <<index_file, in_keys, in_values, version, keys_vec, values_vec,
                   mphf, mphf_to_original, loop_idx, cursor, readVars,
                   codecVars, respVars>>

IoSteps == {"placeholder", "write_values", "create_index", "index_header",
            "mphf", "write_keys", "write_offsets", "seek", "data_header"}

\* Any file call returns an error: `?` returns it, the files stay as they are
IoError ==
    /\ pc \in IoSteps /\ WriterMayStep
    /\ pc' = "io_error"
    /\ UNCHANGED <<fileVars, in_keys, in_values, version, data_pos, keys_vec,
                   values_vec, mphf, mphf_to_original, loop_idx, cursor,
                   readVars, codecVars, respVars>>

\* Database::open on the pair as it is now
Open ==
    /\ db = Closed
    /\ pc # "off"
    /\ db' \in OpenOutcomes(data_file, index_file)
    /\ UNCHANGED <<get_key, get_result, fileVars, writeVars, codecVars, respVars>>

\* Database::get on the open handle
Get ==
    /\ db.tag = "Ok"
    /\ get_result.tag # "Panic"
    /\ \E key \in KeyUniverse :
          /\ get_key' = key
          /\ get_result' = get(db.db, key)
    /\ UNCHANGED <<db, fileVars, writeVars, codecVars, respVars>>

\* The handle is dropped (or the failed open is forgotten)
Close ==
    /\ db # Closed
    /\ db' = Closed
    /\ get_key' = <<>>
    /\ get_result' = [tag |-> "Unset"]
    /\ UNCHANGED <<fileVars, writeVars, codecVars, respVars>>

Next ==
    \/ CreateData \/ WritePlaceholder \/ Collect \/ WriteValue
    \/ CreateIndex \/ WriteIndexHeader \/ WriteMphf \/ WriteKey \/ WriteOffset
    \/ SeekStart \/ WriteDataHeader \/ IoError
    \/ Open \/ Get \/ Close

Spec == Init /\ [][Next]_vars

\* The steps add up to the file pair of BuiltData / BuiltIndex
StepsBuildThePair ==
    pc = "done" =>
        /\ data_file.bytes = BuiltData(version, keys_vec, values_vec, mphf)
        /\ index_file.bytes = BuiltIndex(keys_vec, values_vec, mphf)

----------------------------------------------------------------------------
(* Properties of the storage engine under Spec *)

StoredKeys == { keys_vec[j] : j \in 1..Len(keys_vec) }

\* the caller's contract: as many values as keys, every key KEY_SIZE bytes
WellFormedInput ==
    /\ Len(in_keys) = Len(in_values)
    /\ \A j \in 1..Len(in_keys) : Len(in_keys[j]) = KEY_SIZE

\* C1: Round trip.  After write_database has returned Ok on unique 16-byte
\* keys paired with values, open on the produced pair succeeds and get of
\* every key of the set returns exactly the value paired with it, whatever
\* bijection the perfect hash chose.
RoundTrip ==
    (pc = "done" /\ WellFormedInput) =>
        /\ db # Closed => db.tag = "Ok"
        /\ \A j \in 1..Len(in_keys) :
              get_key = in_keys[j] => get_result = Some(in_values[j])

C1Witness ==
    /\ pc = "done" /\ WellFormedInput
    /\ Len(in_keys) = 3
    /\ mphf[in_keys[1]] = 1 /\ mphf[in_keys[2]] = 2
    /\ Len(in_values[1]) = 2 /\ Len(in_values[2]) = 1 /\ Len(in_values[3]) = 1
    /\ get_key = in_keys[1]
    /\ get_result = Some(in_values[1])

\* C2: Absence.  On a database built from a key set S, get of a key that is
\* not in S returns the empty result, whatever id the perfect hash gives it:
\* no panic, no out-of-range index, no stored key's value.
AbsentKeyIsNone ==
    (pc = "done" /\ get_key # <<>> /\ get_key \notin StoredKeys) =>
        get_result = None

C2Witness ==
    /\ pc = "done"
    /\ Len(keys_vec) = 2
    /\ get_key \in KeyUniverse \ StoredKeys
    /\ mphf[get_key] = 1
    /\ get_result = None

\* C4: write_database does not return success when the keys and values
\* sequences differ in length or a key is not 16 bytes long.
AbortsOnContractViolation == pc = "done" => WellFormedInput

\* C5: No openable intermediate state.  Between the first file call of
\* write_database and its final data-header write, and after a call that
\* ended in an I/O error or a panic, open does not return a Database; after
\* the final header write it does.
NoOpenableIntermediate ==
    /\ db.tag = "Ok" => pc \in {"idle", "done"}
    /\ (pc = "done" /\ db # Closed) => db.tag = "Ok"

C5Witness ==
    /\ pc = "data_header"
    /\ Len(keys_vec) = 2
    /\ Len(index_file.bytes) = INDEX_HEADER_SIZE + NumUniverseKeys + 2 * KEY_SIZE + 2 * 8
    /\ db = OpenErr("Invalid DABA header")

\* the value the caller paired with the key stored at slot i of the handle
ValueAtSlot(i) ==
    in_values[CHOOSE j \in 1..Len(keys_vec) : in_keys[j] = db.db.keys[i]]

RECURSIVE SumLens(_)
SumLens(i) == IF i = 0 THEN 0 ELSE SumLens(i - 1) + Len(ValueAtSlot(i))

\* C10: Offsets invariants.  In the pair a completed write_database leaves
\* for n >= 1 keys: offsets[0] = 0, the offsets never decrease, offsets[i] is
\* the total length of the values at ids 0..i-1, and offsets[n-1] plus the
\* length of the last value is data_file_length - values_start.
OffsetsInvariants ==
    (pc = "done" /\ db.tag = "Ok" /\ Len(keys_vec) >= 1) =>
        LET offs == db.db.offsets
            n == Len(offs)
        IN /\ n = Len(keys_vec)
           /\ \A i \in 1..n : \E j \in 1..n : in_keys[j] = db.db.keys[i]
           /\ offs[1] = 0
           /\ \A i \in 1..(n - 1) : offs[i] <= offs[i + 1]
           /\ \A i \in 1..n : offs[i] = SumLens(i - 1)
           /\ offs[n] + Len(ValueAtSlot(n)) =
                 Len(data_file.bytes) - db.db.header.values_start

C10Witness ==
    /\ pc = "done" /\ db.tag = "Ok"
    /\ db.db.offsets = <<0, 2, 3>>
    /\ Len(data_file.bytes) = DABA_HEADER_SIZE + 3

\* the permutation is built once Collect has run
PermutationBuilt ==
    pc \in {"write_values", "create_index", "index_header", "mphf",
            "write_keys", "write_offsets", "seek", "data_header", "done"}

\* the i-th value of the data file (0-based i), by the lengths of the values
\* the caller paired with the keys of ids 0..i
RECURSIVE LensBefore(_)
LensBefore(i) ==
    IF i = 0 THEN 0
    ELSE LensBefore(i - 1)
           + Len(values_vec[CHOOSE j \in 1..Len(keys_vec) : mphf[keys_vec[j]] = i - 1])

\* C11: Permutation bijection.  For unique keys the id-to-original-index
\* table is a bijection over [0, n): every original index is in exactly one
\* slot, the slot of its key's id.  In the completed pair the key at slot i
\* of the keys section is the key whose id is i, and the i-th value of the
\* data file is that key's value.
PermutationBijection ==
    PermutationBuilt =>
        LET n == Len(keys_vec)
        IN /\ Len(mphf_to_original) = n
           /\ \A j \in 0..(n - 1) :
                 Cardinality({ s \in 1..n : mphf_to_original[s] = j }) = 1
           /\ \A j \in 1..n : mphf_to_original[mphf[keys_vec[j]] + 1] = j - 1
           /\ pc = "done" =>
                 \A j \in 1..n :
                    LET id == mphf[keys_vec[j]]
                        kpos == INDEX_HEADER_SIZE + NumUniverseKeys + id * KEY_SIZE
                        vpos == DABA_HEADER_SIZE + LensBefore(id)
                    IN /\ SubSeq(index_file.bytes, kpos + 1, kpos + KEY_SIZE)
                            = keys_vec[j]
                       /\ SubSeq(data_file.bytes, vpos + 1, vpos + Len(values_vec[j]))
                            = values_vec[j]

C11Witness ==
    /\ pc = "done"
    /\ Len(keys_vec) = 3
    /\ mphf_to_original = <<2, 0, 1>>
    /\ Len(values_vec[1]) = 2 /\ Len(values_vec[2]) = 0 /\ Len(values_vec[3]) = 1

\* the id of the queried key, when it is a stored key of the open handle
IsStoredGet ==
    /\ pc = "done" /\ db.tag = "Ok"
    /\ get_key \in StoredKeys

GetId == mphf[get_key]

\* C12 as stated: start = offsets[id]; end = offsets[id+1] when id+1 < n and
\* data_file_length - values_start - offsets[id] for the last id; the slice
\* returned is [values_start+start, values_start+end) of the data file.
GetRangeAsStated ==
    IsStoredGet =>
        LET offs == db.db.offsets
            vs == db.db.header.values_start
            start == offs[GetId + 1]
            end == IF GetId + 1 < Len(offs) THEN offs[GetId + 2]
                   ELSE Len(data_file.bytes) - vs - offs[GetId + 1]
        IN get_result = Some(SubSeq(data_file.bytes, vs + start + 1, vs + end))

\* C12 amended: as stated, but for the last id end = data_file_length -
\* values_start (the own offset is not subtracted).
GetRangeToEndOfFile ==
    IsStoredGet =>
        LET offs == db.db.offsets
            vs == db.db.header.values_start
            start == offs[GetId + 1]
            end == IF GetId + 1 < Len(offs) THEN offs[GetId + 2]
                   ELSE Len(data_file.bytes) - vs
        IN get_result = Some(SubSeq(data_file.bytes, vs + start + 1, vs + end))

C12Witness ==
    /\ IsStoredGet
    /\ Len(keys_vec) = 3
    /\ GetId = 2
    /\ db.db.offsets = <<0, 1, 3>>
    /\ get_result = Some(ValueOfLen(2))

----------------------------------------------------------------------------
(* open and get on file pairs found on disk: well-formed, corrupt or
   truncated.  No writer runs. *)

MaxBody == 2
MaxStoredOffset == 3

ExtDataFiles ==
    { FileOf(DabaHeader_to_bytes([magic |-> mg, version |-> 1, num_keys |-> nk,
                                  key_size |-> KEY_SIZE, values_start |-> vs])
             \o ValueOfLen(b)) :
        mg \in {DABA_MAGIC, <<68, 65, 66, 66>>}, nk \in 0..2,
        vs \in {DABA_HEADER_SIZE, DABA_HEADER_SIZE + 2}, b \in 0..MaxBody }
    \cup { NoFile, FileOf(<<>>), FileOf(DABA_MAGIC \o Zeros(DABA_HEADER_SIZE - 5)) }

ExtMphfBytes ==
    { [c \in 1..NumUniverseKeys |-> c - 1],
      [c \in 1..NumUniverseKeys |-> IF c = 1 THEN 1 ELSE IF c = 2 THEN 0 ELSE c - 1],
      [c \in 1..NumUniverseKeys |-> 0] }

\* an index file of nk keys with the sections where the header says, cut
\* short by `cut` bytes
ExtIndexBytes(mg, nk, nkeys_written, mb, offs, cut) ==
    LET full == IndexHeader_to_bytes(
                    [magic |-> mg, version |-> 1, num_keys |-> nk,
                     mphf_size |-> Len(mb),
                     keys_offset |-> INDEX_HEADER_SIZE + Len(mb),
                     offsets_offset |-> INDEX_HEADER_SIZE + Len(mb)
                                          + nkeys_written * KEY_SIZE])
                \o mb
                \o Concat([i \in 1..nkeys_written |-> Key(i)])
                \o Concat([i \in 1..nkeys_written |-> to_le_bytes(offs[i], 8)])
    IN SubSeq(full, 1, Len(full) - cut)

ExtIndexFiles ==
    { FileOf(ExtIndexBytes(mg, nk, Len(offs), mb, offs, cut)) :
        mg \in {KIDX_MAGIC, <<75, 73, 68, 89>>}, nk \in 0..2,
        mb \in ExtMphfBytes,
        offs \in SeqsUpTo(0..MaxStoredOffset, 2), cut \in {0, 1, 9} }
    \cup { NoFile, FileOf(<<>>), FileOf(KIDX_MAGIC \o Zeros(INDEX_HEADER_SIZE - 5)) }

FilesInit ==
    /\ CodecIdle /\ RespIdle
    /\ pc = "ext"
    /\ data_file \in ExtDataFiles
    /\ index_file \in ExtIndexFiles
    /\ WriterIdle /\ ReaderIdle

FilesNext == Open \/ Get \/ Close

SpecFiles == FilesInit /\ [][FilesNext]_vars

HeadersDecode ==
    /\ data_file.exists /\ index_file.exists
    /\ Len(data_file.bytes) >= DABA_HEADER_SIZE
    /\ Len(index_file.bytes) >= INDEX_HEADER_SIZE
    /\ SubSeq(data_file.bytes, 1, 4) = DABA_MAGIC
    /\ SubSeq(index_file.bytes, 1, 4) = KIDX_MAGIC

StoredCount(file) == from_le_bytes(SubSeq(file.bytes, 9, 16))

\* C6: When both headers decode and the two key counts differ, open returns
\* the count-mismatch error and no handle, before any key or offset record
\* is read (so also when those records are missing from the file).
CountMismatchIsAnError ==
    (db # Closed /\ HeadersDecode
        /\ StoredCount(index_file) # StoredCount(data_file)) =>
        db = OpenErr("Key count mismatch between data and index files")

C6Witness ==
    /\ HeadersDecode
    /\ StoredCount(index_file) = 2 /\ StoredCount(data_file) = 1
    /\ Len(index_file.bytes) < INDEX_HEADER_SIZE + NumUniverseKeys + 2 * KEY_SIZE
    /\ db = OpenErr("Key count mismatch between data and index files")

\* C3: On every handle that open returned, get returns the empty result or a
\* slice of the mapped data file; it never fails.
GetNeverFails ==
    /\ get_result.tag # "Panic"
    /\ (db.tag = "Ok" /\ get_result.tag = "Some") =>
           Len(get_result.val) <= Len(db.db.mmap_data) - db.db.header.values_start

====
